---- MODULE Spec2Model ----
(***************************************************************************)
(* A model of the Web Research Assistant MCP server.                       *)
(*                                                                         *)
(* The repository holds two runnable servers: main.py (started through     *)
(* server.py) and the stand-alone tool.py.  Both register tools named      *)
(* perform_web_research and scrape_webpage_content behind the same bearer  *)
(* gate.  The variable `variant` says which module the process runs.       *)
(*                                                                         *)
(* Python values:                                                          *)
(*   str          a sequence of symbols; a symbol is one character, or a   *)
(*                literal fragment that the code never looks inside        *)
(*   long str     (page text) a run-length sequence of [c, n] blocks, so   *)
(*                that the 5000 character cap keeps its width              *)
(*   Optional[x]  the empty set (None / absent) or a singleton set         *)
(***************************************************************************)
EXTENDS Integers, Sequences, FiniteSets, TLC

VARIABLES variant, env, TOKEN, MY_NUMBER, SERPER_API_KEY, PORT, calls

cfg == <<variant, env, TOKEN, MY_NUMBER, SERPER_API_KEY, PORT>>
vars == <<variant, env, TOKEN, MY_NUMBER, SERPER_API_KEY, PORT, calls>>

\* ------------------------------------------------------------------ bounds
MaxCalls == 2
MaxOrganic == 2
MaxNodes == 2
MaxQueryLen == 2

Calls == 1..MaxCalls

\* ------------------------------------------------------- Python primitives
None == {}
Some(x) == {x}
TheOne(S) == CHOOSE x \in S : TRUE

\* bool(v) of an Optional[str]: None and "" are falsy
Falsy(v) == v = None \/ v = Some(<<>>)

Whitespace == {" ", "\t", "\n"}

RECURSIVE lstrip(_)
lstrip(s) == IF s # <<>> /\ Head(s) \in Whitespace THEN lstrip(Tail(s)) ELSE s

RECURSIVE rstrip(_)
rstrip(s) ==
    IF s # <<>> /\ s[Len(s)] \in Whitespace
    THEN rstrip(SubSeq(s, 1, Len(s) - 1))
    ELSE s

\* str.strip()
strip(s) == rstrip(lstrip(s))

\* `needle in haystack` for a needle that is one symbol of the haystack
Contains(haystack, needle) == \E i \in 1..Len(haystack) : haystack[i] = needle

LowerLetters ==
    <<"a", "b", "c", "d", "e", "f", "g", "h", "i", "j", "k", "l", "m",
      "n", "o", "p", "q", "r", "s", "t", "u", "v", "w", "x", "y", "z">>

UpperLetters ==
    <<"A", "B", "C", "D", "E", "F", "G", "H", "I", "J", "K", "L", "M",
      "N", "O", "P", "Q", "R", "S", "T", "U", "V", "W", "X", "Y", "Z">>

IsLower(c) == \E i \in 1..26 : LowerLetters[i] = c
IsUpper(c) == \E i \in 1..26 : UpperLetters[i] = c
IsCased(c) == IsLower(c) \/ IsUpper(c)
ToUpper(c) == IF IsLower(c) THEN UpperLetters[CHOOSE i \in 1..26 : LowerLetters[i] = c] ELSE c
ToLower(c) == IF IsUpper(c) THEN LowerLetters[CHOOSE i \in 1..26 : UpperLetters[i] = c] ELSE c

\* str.title(): a cased character is upper-cased after an uncased one (or at
\* the start) and lower-cased after a cased one
RECURSIVE titleFrom(_, _)
titleFrom(s, prevCased) ==
    IF s = <<>> THEN <<>>
    ELSE <<IF prevCased THEN ToLower(Head(s)) ELSE ToUpper(Head(s))>>
         \o titleFrom(Tail(s), IsCased(Head(s)))

title(s) == titleFrom(s, FALSE)

IsPrefixAt(s, i, pat) ==
    /\ i + Len(pat) - 1 <= Len(s)
    /\ \A k \in 1..Len(pat) : s[i + k - 1] = pat[k]

\* str.replace(old, ""): every non-overlapping occurrence, left to right
RECURSIVE removeAll(_, _)
removeAll(s, old) ==
    IF s = <<>> THEN <<>>
    ELSE IF IsPrefixAt(s, 1, old) THEN removeAll(SubSeq(s, Len(old) + 1, Len(s)), old)
    ELSE <<Head(s)>> \o removeAll(Tail(s), old)

\* str.split(sep)[0]
RECURSIVE splitFirst(_, _)
splitFirst(s, sep) ==
    IF s = <<>> \/ Head(s) = sep THEN <<>>
    ELSE <<Head(s)>> \o splitFirst(Tail(s), sep)

\* ------------------------------------------------------------ configuration
DefaultPort == 8080

Digits == <<"0", "1", "2", "3", "4", "5", "6", "7", "8", "9">>
DigitValue(c) == (CHOOSE i \in 1..10 : Digits[i] = c) - 1

\* int(s) of a string of decimal digits
RECURSIVE int(_)
int(s) == IF s = <<>> THEN 0 ELSE 10 * int(SubSeq(s, 1, Len(s) - 1)) + DigitValue(s[Len(s)])

Placeholder == "YOUR_SERPER_API_KEY_HERE"

\* os.getenv(name) / os.getenv(name, default) on the environment e
getenv(e, name, default) == IF e[name] = None THEN default ELSE e[name]

\* The set of environments a deployment can start from.
Environments(tokens, numbers, keys, ports) ==
    [TOKEN : tokens, MY_NUMBER : numbers, SERPER_API_KEY : keys, PORT : ports]

AllKeys ==
    { None, Some(<<>>), Some(<<"sk-live">>), Some(<<Placeholder>>),
      Some(<<"sk-", Placeholder>>) }

\* main.py lines 13-19: the module-level configuration read from e
main_config(e) ==
    [TOKEN |-> TheOne(getenv(e, "TOKEN", Some("12345678"))),
     MY_NUMBER |-> getenv(e, "MY_NUMBER", None),
     SERPER_API_KEY |-> getenv(e, "SERPER_API_KEY", None),
     PORT |-> IF e.PORT = None THEN DefaultPort ELSE int(TheOne(e.PORT))]

\* tool.py lines 13-18 (and the fixed port of line 95)
tool_config(e) ==
    [TOKEN |-> TheOne(getenv(e, "TOKEN", Some("12345678"))),
     MY_NUMBER |-> getenv(e, "MY_NUMBER", Some(<<"YOUR_MOBILE_NUMBER_HERE">>)),
     SERPER_API_KEY |-> getenv(e, "SERPER_API_KEY", Some(<<Placeholder>>)),
     PORT |-> DefaultPort]

\* Process start: server.py imports main, or tool.py is run by itself.
LoadConfig(envs) ==
    /\ variant \in {"main", "tool"}
    /\ env \in envs
    /\ LET c == IF variant = "main" THEN main_config(env) ELSE tool_config(env)
       IN  /\ TOKEN = c.TOKEN
           /\ MY_NUMBER = c.MY_NUMBER
           /\ SERPER_API_KEY = c.SERPER_API_KEY
           /\ PORT = c.PORT

\* ------------------------------------------------------------------ auth
\* SimpleBearerAuthProvider.load_access_token: Optional[AccessToken]
load_access_token_lax(token) ==
    IF token = TOKEN \/ token = ""
    THEN Some([token |-> token, client_id |-> "unknown", scopes |-> <<>>, expires_at |-> None])
    ELSE None

load_access_token(token) ==
    IF token = TOKEN
    THEN Some([token |-> token, client_id |-> "unknown", scopes |-> <<>>, expires_at |-> None])
    ELSE None

\* ------------------------------------------------------- results of a call
\* A raised exception: its class and str(e).
Exc(type, text) == [type |-> type, text |-> text]
NoExc == Exc("", <<>>)

\* httpx.RequestError and its subclasses (main.py line 148)
RequestErrors == {"ConnectError", "ReadTimeout", "UnsupportedProtocol", "TooManyRedirects"}

\* What a tool returns: a dict (with the keys in `keys`) or, for validate, a str.
NoResult ==
    [type |-> "none", keys |-> {}, message |-> <<>>, results_data |-> <<>>,
     full_text |-> <<>>, name |-> <<>>, description |-> <<>>, str |-> <<>>]

MessageDict(m) == [NoResult EXCEPT !.type = "dict", !.keys = {"message"}, !.message = m]

\* How a piece of handler code ends: it returns `ret`, or raises `exc`.
\* `parsed` records whether BeautifulSoup was given the response body.
Return(r) == [raised |-> FALSE, exc |-> NoExc, ret |-> r, parsed |-> FALSE]
Raise(type, text) == [raised |-> TRUE, exc |-> Exc(type, text), ret |-> NoResult, parsed |-> FALSE]
Unfinished == [raised |-> FALSE, exc |-> NoExc, ret |-> NoResult, parsed |-> FALSE]

\* ------------------------------------------------------------- the network
NoJson ==
    [valid |-> FALSE, top |-> "", has_organic |-> FALSE, org_type |-> "",
     org_truthy |-> FALSE, organic |-> <<>>]

\* What an awaited outbound request ends with: the client raises `exc`
\* (connection fault, timeout, bad URL), or a response arrives.
ClientError(type) ==
    [kind |-> "exc", exc |-> Exc(type, <<type>>), status |-> 0, ctype |-> None,
     text |-> <<>>, data |-> NoJson, doc |-> <<>>]

Response(status, ctype, text, data, doc) ==
    [kind |-> "resp", exc |-> NoExc, status |-> status, ctype |-> ctype,
     text |-> text, data |-> data, doc |-> doc]

\* httpx: Response.raise_for_status() raises unless 2xx
httpx_is_error(status) == ~(200 <= status /\ status <= 299)
\* requests: Response.raise_for_status() raises on 4xx and 5xx only
requests_is_error(status) == 400 <= status /\ status <= 599

StatusText(status) == <<ToString(status)>>

\* ---------------------------------------------------------------- urlparse
Schemes == {"https:", "http:"}
NetlocEnd == {"/", "?", "#"}

RECURSIVE takeNetloc(_)
takeNetloc(s) ==
    IF s = <<>> \/ Head(s) \in NetlocEnd THEN <<>>
    ELSE <<Head(s)>> \o takeNetloc(Tail(s))

\* urllib.parse.urlparse(url).netloc for a str url; raises ValueError on an
\* unbalanced bracket in the netloc ("Invalid IPv6 URL")
urlparse_netloc(url) ==
    LET rest == IF url # <<>> /\ Head(url) \in Schemes THEN Tail(url) ELSE url
        netloc == IF rest # <<>> /\ Head(rest) = "//" THEN takeNetloc(Tail(rest)) ELSE <<>>
    IN  IF Contains(netloc, "[") # Contains(netloc, "]")
        THEN Raise("ValueError", <<"Invalid IPv6 URL">>)
        ELSE Return([NoResult EXCEPT !.type = "str", !.str = netloc])

WWW == <<"w", "w", "w", ".">>

\* main.py line 94: domain.replace('www.', '').split('.')[0].title()
site_label(domain) == title(splitFirst(removeAll(domain, WWW), "."))

\* --------------------------------------------------- search provider data
\* One element of the provider's "organic" array.  t is its JSON type; a
\* dict has each of title, link, snippet present (a singleton) or absent.
\* A link is a JSON string or null.
StrLink(s) == [t |-> "str", s |-> s]
NullLink == [t |-> "null", s |-> <<>>]
DictItem(ttl, link, snippet) == [t |-> "dict", title |-> ttl, link |-> link, snippet |-> snippet]
StrItem == [t |-> "str", title |-> None, link |-> None, snippet |-> None]

\* main.py lines 92-97: the bullet line of one result, or the exception that
\* the bare `except: continue` swallows
main_source_line(result) ==
    IF result.t # "dict" THEN Raise("TypeError", <<"string indices must be integers">>)
    ELSE IF result.link = None THEN Raise("KeyError", <<"'link'">>)
    ELSE IF TheOne(result.link).t # "str"
         THEN Raise("TypeError", <<"a bytes-like object is required, not 'str'">>)
    ELSE LET parsed == urlparse_netloc(TheOne(result.link).s)
         IN  IF parsed.raised THEN parsed
             ELSE IF result.title = None THEN Raise("KeyError", <<"'title'">>)
             ELSE Return([NoResult EXCEPT !.type = "str",
                            !.str = <<"- **", TheOne(result.title), "** (found on ">>
                                    \o site_label(parsed.ret.str) \o <<")">>])

\* main.py lines 90-97: the loop that collects the bullet lines
RECURSIVE main_sources(_)
main_sources(organic) ==
    IF organic = <<>> THEN <<>>
    ELSE LET line == main_source_line(Head(organic))
         IN  (IF line.raised THEN <<>> ELSE <<line.ret.str>>) \o main_sources(Tail(organic))

\* '\n'.join(lines)
RECURSIVE join_lines(_)
join_lines(lines) ==
    IF lines = <<>> THEN <<>>
    ELSE IF Len(lines) = 1 THEN Head(lines)
    ELSE Head(lines) \o <<"\n">> \o join_lines(Tail(lines))

\* Every exception class of the model derives from Exception.
IsException(type) == type # ""

\* The exception a client call or a failed step leaves the try block with.
Reraise(exc) == [Unfinished EXCEPT !.raised = TRUE, !.exc = exc]

\* An outbound request (method, url, JSON body, API-key header, timeout in
\* seconds; None when the call sets no timeout).
Request(method, url, payload, key, timeout, follow) ==
    [method |-> method, url |-> url, payload |-> payload, key |-> key,
     timeout |-> timeout, follow_redirects |-> follow]

SearchUrl == <<"https://google.serper.dev/search">>

\* `"organic" not in data or not data["organic"]`, then data["organic"]:
\* the exception these raise on a body of the wrong shape, if any
organic_lookup(data) ==
    IF data.top \in {"null", "int"}
    THEN Raise("TypeError", <<"argument of type is not iterable">>)
    ELSE IF ~data.has_organic THEN Return(NoResult)
    ELSE IF data.top # "dict"
    THEN Raise("TypeError", <<"indices must be integers">>)
    ELSE Return(NoResult)

NoOrganic(data) == ~data.has_organic \/ ~data.org_truthy

\* data["organic"][0] on a truthy value that is not a list
first_of_non_list(org_type) ==
    IF org_type = "dict" THEN Raise("KeyError", <<"0">>)
    ELSE IF org_type = "str"
    THEN Raise("AttributeError", <<"'str' object has no attribute 'get'">>)
    ELSE Raise("TypeError", <<"object is not subscriptable">>)

\* ------------------------------------------ main.py: perform_web_research
\* main.py lines 67-81: up to the awaited POST.  Returns the finished result,
\* or the request the coroutine suspends on.
main_key_missing_none_only == SERPER_API_KEY = None

main_key_missing == Falsy(SERPER_API_KEY)

main_query_empty(query) == query = <<>> \/ strip(query) = <<>>

main_perform_web_research_begin(query) ==
    IF main_key_missing
    THEN [req |-> None, out |-> Return(MessageDict(<<"Error: SERPER_API_KEY is not set.">>))]
    ELSE IF main_query_empty(query)
    THEN [req |-> None, out |-> Return(MessageDict(<<"Error: Search query cannot be empty.">>))]
    ELSE [req |-> Some(Request("POST", SearchUrl, Some([q |-> query, num |-> 5]),
                               SERPER_API_KEY, Some(10), FALSE)),
          out |-> Unfinished]

\* main.py lines 82-108: the try block after the response arrives
main_perform_web_research_try(query, up) ==
    IF up.kind = "exc" THEN Reraise(up.exc)
    ELSE IF httpx_is_error(up.status)
    THEN Raise("HTTPStatusError", <<"status ">> \o StatusText(up.status))
    ELSE IF ~up.data.valid THEN Raise("JSONDecodeError", <<"Expecting value">>)
    ELSE IF organic_lookup(up.data).raised THEN organic_lookup(up.data)
    ELSE IF NoOrganic(up.data)
    THEN Return(MessageDict(<<"No results found for '">> \o query \o <<"'.">>))
    ELSE IF up.data.org_type # "list" THEN first_of_non_list(up.data.org_type)
    ELSE IF up.data.organic[1].t # "dict"
    THEN Raise("AttributeError", <<"object has no attribute 'get'">>)
    ELSE LET first == up.data.organic[1]
             first_snippet ==
                 IF first.snippet = None THEN <<"No summary available.">>
                 ELSE <<TheOne(first.snippet)>>
             sources == main_sources(up.data.organic)
             summary ==
                 <<"Based on my research for **'">> \o query
                 \o <<"'**, here is a summary:\n\n">> \o first_snippet
                 \o <<"\n\n", "--- \n", "### Where to Learn More\n", "Top sources:\n">>
                 \o join_lines(sources)
         IN  Return([MessageDict(summary) EXCEPT
                        !.keys = {"message", "results_data"},
                        !.results_data = up.data.organic])

\* main.py lines 110-113: the except clauses
main_perform_web_research_except_status_only(e, up) ==
    IF e.type = "HTTPStatusError"
    THEN Return(MessageDict(<<"Search API Error (">> \o StatusText(up.status)
                            \o <<"): ">> \o up.text))
    ELSE Reraise(e)

main_perform_web_research_except(e, up) ==
    IF e.type = "HTTPStatusError"
    THEN Return(MessageDict(<<"Search API Error (">> \o StatusText(up.status)
                            \o <<"): ">> \o up.text))
    ELSE IF IsException(e.type)
    THEN Return(MessageDict(<<"An unexpected search error occurred: ">> \o e.text))
    ELSE Reraise(e)

main_perform_web_research_resume(query, up) ==
    LET t == main_perform_web_research_try(query, up)
    IN  IF t.raised THEN main_perform_web_research_except(t.exc, up) ELSE t

\* ------------------------------------------ tool.py: perform_web_research
tool_key_missing ==
    Falsy(SERPER_API_KEY) \/ Contains(TheOne(SERPER_API_KEY), Placeholder)

\* tool.py lines 55-61: no check of the query, no timeout
tool_perform_web_research_begin(query) ==
    IF tool_key_missing
    THEN [req |-> None,
          out |-> Return(MessageDict(
                    <<"Error: The SERPER_API_KEY is not configured in the tool server.">>))]
    ELSE [req |-> Some(Request("POST", SearchUrl, Some([q |-> query, num |-> 5]),
                               SERPER_API_KEY, None, TRUE)),
          out |-> Unfinished]

\* str(link) inside the f-string of tool.py line 68
LinkText(link) == IF link.t = "str" THEN link.s ELSE <<"None">>

\* tool.py lines 67-68: the numbered lines; the first failing subscript
\* raises out of the loop
RECURSIVE tool_summary_parts(_, _)
tool_summary_parts(organic, i) ==
    IF organic = <<>> THEN Return([NoResult EXCEPT !.type = "list"])
    ELSE LET result == Head(organic)
             rest == tool_summary_parts(Tail(organic), i + 1)
         IN  IF result.t # "dict"
             THEN Raise("TypeError", <<"string indices must be integers">>)
             ELSE IF result.title = None THEN Raise("KeyError", <<"'title'">>)
             ELSE IF result.link = None THEN Raise("KeyError", <<"'link'">>)
             ELSE IF rest.raised THEN rest
             ELSE Return([NoResult EXCEPT !.type = "list",
                            !.results_data =
                               <<(<<"\n", ToString(i), ". **", TheOne(result.title),
                                    "**\n   *Source: ">>
                                  \o LinkText(TheOne(result.link)) \o <<"*">>)>>
                               \o rest.ret.results_data])

\* tool.py lines 61-70
tool_perform_web_research_try(query, up) ==
    IF up.kind = "exc" THEN Reraise(up.exc)
    ELSE IF requests_is_error(up.status)
    THEN Raise("HTTPError", <<"status ">> \o StatusText(up.status))
    ELSE IF ~up.data.valid THEN Raise("JSONDecodeError", <<"Expecting value">>)
    ELSE IF organic_lookup(up.data).raised THEN organic_lookup(up.data)
    ELSE IF NoOrganic(up.data)
    THEN Return(MessageDict(<<"I couldn't find any web results for '">> \o query \o <<"'.">>))
    ELSE IF up.data.org_type = "int"
    THEN Raise("TypeError", <<"'int' object is not iterable">>)
    ELSE IF up.data.org_type # "list"
    THEN Raise("TypeError", <<"string indices must be integers">>)
    ELSE LET parts == tool_summary_parts(up.data.organic, 1)
         IN  IF parts.raised THEN parts
             ELSE Return([MessageDict(
                            join_lines(<<(<<"I found these top results for **'">> \o query
                                          \o <<"'**. Which one would you like me to read and summarize in detail?\n">>)>>
                                       \o parts.ret.results_data)) EXCEPT
                            !.keys = {"message", "results_data"},
                            !.results_data = up.data.organic])

\* tool.py lines 71-72
tool_perform_web_research_except(e, up) ==
    IF IsException(e.type)
    THEN Return(MessageDict(<<"An unexpected error occurred during web search: ">> \o e.text))
    ELSE Reraise(e)

tool_perform_web_research_resume(query, up) ==
    LET t == tool_perform_web_research_try(query, up)
    IN  IF t.raised THEN tool_perform_web_research_except(t.exc, up) ELSE t

\* --------------------------------------------------------------- page text
\* A long str in run-length form: Block(c, n) is the character c, n times.
\* TextCat keeps the form canonical (no two adjacent blocks of one character).
Block(c, n) == [c |-> c, n |-> n]

TextCat(a, b) ==
    IF a = <<>> THEN b
    ELSE IF b = <<>> THEN a
    ELSE IF a[Len(a)].c = b[1].c
    THEN SubSeq(a, 1, Len(a) - 1) \o <<Block(b[1].c, a[Len(a)].n + b[1].n)>> \o Tail(b)
    ELSE a \o b

RECURSIVE TextLen(_)
TextLen(t) == IF t = <<>> THEN 0 ELSE Head(t).n + TextLen(Tail(t))

\* t[:k]
RECURSIVE TextTake(_, _)
TextTake(t, k) ==
    IF t = <<>> \/ k <= 0 THEN <<>>
    ELSE IF Head(t).n <= k THEN <<Head(t)>> \o TextTake(Tail(t), k - Head(t).n)
    ELSE <<Block(Head(t).c, k)>>

\* t.strip()
RECURSIVE text_lstrip(_)
text_lstrip(t) == IF t # <<>> /\ Head(t).c \in Whitespace THEN text_lstrip(Tail(t)) ELSE t

RECURSIVE text_rstrip(_)
text_rstrip(t) ==
    IF t # <<>> /\ t[Len(t)].c \in Whitespace
    THEN text_rstrip(SubSeq(t, 1, Len(t) - 1))
    ELSE t

text_strip(t) == text_rstrip(text_lstrip(t))

\* sep.join(texts)
RECURSIVE text_join(_, _)
text_join(sep, texts) ==
    IF texts = <<>> THEN <<>>
    ELSE IF Len(texts) = 1 THEN Head(texts)
    ELSE TextCat(TextCat(Head(texts), sep), text_join(sep, Tail(texts)))

\* ---------------------------------------------------------------- the DOM
\* The tree BeautifulSoup builds from the response body: a text node, or an
\* element with its children in document order.
TextNode(t) == [tag |-> "#text", text |-> t, kids |-> <<>>]
Element(tag, kids) == [tag |-> tag, text |-> <<>>, kids |-> kids]

\* Tag.get_text(): the text of every descendant text node, in document order
RECURSIVE get_text(_)
RECURSIVE get_text_of(_)
get_text(node) == IF node.tag = "#text" THEN node.text ELSE get_text_of(node.kids)
get_text_of(nodes) ==
    IF nodes = <<>> THEN <<>> ELSE TextCat(get_text(Head(nodes)), get_text_of(Tail(nodes)))

\* for el in soup(tags): el.decompose()  -- every element with one of the
\* tags is removed from the tree, with all it contains
decompose_nothing(nodes, tags) == nodes

RECURSIVE decompose(_, _)
decompose(nodes, tags) ==
    IF nodes = <<>> THEN <<>>
    ELSE LET n == Head(nodes)
         IN  (IF n.tag \in tags THEN <<>>
              ELSE <<[n EXCEPT !.kids = decompose(n.kids, tags)]>>)
             \o decompose(Tail(nodes), tags)

\* soup.find_all(tag): the matching elements at any depth, in document order
RECURSIVE find_all(_, _)
find_all(nodes, tag) ==
    IF nodes = <<>> THEN <<>>
    ELSE LET n == Head(nodes)
         IN  (IF n.tag = tag THEN <<n>> ELSE <<>>)
             \o find_all(n.kids, tag) \o find_all(Tail(nodes), tag)

\* [p.get_text() for p in paragraphs]
paragraph_texts(paragraphs) == [i \in 1..Len(paragraphs) |-> get_text(paragraphs[i])]

\* str.lower() of a header value: a symbol is a character or one of the
\* media-type fragments below
LowerSymbol(x) ==
    CASE x = "TEXT/HTML" -> "text/html"
      [] x = "Text/Plain" -> "text/plain"
      [] x = "Application/PDF" -> "application/pdf"
      [] OTHER -> x

lower(s) == [i \in 1..Len(s) |-> LowerSymbol(s[i])]

\* ---------------------------------------- main.py: scrape_webpage_content
\* main.py lines 117-123: up to the awaited GET
main_scrape_webpage_content_begin(url) ==
    [req |-> Some(Request("GET", url, None, None, Some(15), TRUE)), out |-> Unfinished]

\* main.py line 128
main_is_webpage(content_type) ==
    Contains(content_type, "text/html") \/ Contains(content_type, "text/plain")

\* main.py line 146: text.strip()[:5000]
main_cap(text) == TextTake(text_strip(text), 5000)

\* main.py lines 134-141
main_extract(doc) ==
    text_join(<<Block(" ", 1)>>,
              paragraph_texts(find_all(decompose(doc, {"script", "style", "nav", "footer"}), "p")))

\* main.py lines 124-146: the try block after the response arrives
main_scrape_webpage_content_try(url, up) ==
    IF up.kind = "exc" THEN Reraise(up.exc)
    ELSE IF httpx_is_error(up.status)
    THEN Raise("HTTPStatusError", <<"status ">> \o StatusText(up.status))
    ELSE LET content_type == lower(IF up.ctype = None THEN <<>> ELSE TheOne(up.ctype))
         IN  IF ~main_is_webpage(content_type)
             THEN Return(MessageDict(<<"Error: URL points to '">> \o content_type
                                     \o <<"', not a webpage.">>))
             ELSE LET text == main_extract(up.doc)
                      r == IF text_strip(text) = <<>>
                           THEN MessageDict(<<"Visited page but found no main text content.">>)
                           ELSE [MessageDict(<<"Extracted text:">>) EXCEPT
                                    !.keys = {"message", "full_text"},
                                    !.full_text = main_cap(text)]
                  IN  [Return(r) EXCEPT !.parsed = TRUE]

\* main.py lines 148-151
main_scrape_webpage_content_except(e, up) ==
    IF e.type \in RequestErrors
    THEN Return(MessageDict(<<"Network error: ">> \o e.text))
    ELSE IF IsException(e.type)
    THEN Return(MessageDict(<<"Scrape error: ">> \o e.text))
    ELSE Reraise(e)

main_scrape_webpage_content_resume(url, up) ==
    LET t == main_scrape_webpage_content_try(url, up)
    IN  IF t.raised THEN main_scrape_webpage_content_except(t.exc, up) ELSE t

\* ---------------------------------------- tool.py: scrape_webpage_content
\* tool.py lines 77-80: no timeout
tool_scrape_webpage_content_begin(url) ==
    [req |-> Some(Request("GET", url, None, None, None, TRUE)), out |-> Unfinished]

\* tool.py lines 83-84
tool_extract(doc) == text_join(<<Block(" ", 1)>>, paragraph_texts(find_all(doc, "p")))

\* tool.py lines 81-87: no content-type check, no clean-up, no cap
tool_scrape_webpage_content_try(url, up) ==
    IF up.kind = "exc" THEN Reraise(up.exc)
    ELSE IF requests_is_error(up.status)
    THEN Raise("HTTPError", <<"status ">> \o StatusText(up.status))
    ELSE LET full_text == tool_extract(up.doc)
             r == IF full_text = <<>>
                  THEN MessageDict(
                         <<"I visited the page, but I couldn't find any main article text to summarize.">>)
                  ELSE [MessageDict(<<"Here is the extracted text for summarization:">>) EXCEPT
                           !.keys = {"message", "full_text"},
                           !.full_text = text_strip(full_text)]
         IN  [Return(r) EXCEPT !.parsed = TRUE]

\* tool.py lines 88-89
tool_scrape_webpage_content_except(e, up) ==
    IF IsException(e.type)
    THEN Return(MessageDict(
           <<"Sorry, I was unable to read the content from that URL. Error: ">> \o e.text))
    ELSE Reraise(e)

tool_scrape_webpage_content_resume(url, up) ==
    LET t == tool_scrape_webpage_content_try(url, up)
    IN  IF t.raised THEN tool_scrape_webpage_content_except(t.exc, up) ELSE t

\* ------------------------------------------------------- about, validate
\* main.py lines 52-58
about ==
    Return([NoResult EXCEPT
              !.type = "dict", !.keys = {"name", "description"},
              !.name = <<"Web Research Assistant MCP">>,
              !.description = <<"Async web research assistant using non-blocking I/O.">>])

\* main.py lines 60-63
main_validate ==
    Return([NoResult EXCEPT
              !.type = "str",
              !.str = IF Falsy(MY_NUMBER) THEN <<"Validation Number Not Configured">>
                      ELSE TheOne(MY_NUMBER)])

\* tool.py lines 48-51
tool_validate == Return([NoResult EXCEPT !.type = "str", !.str = TheOne(MY_NUMBER)])

\* ------------------------------------------------------------- the server
\* The tools each module registers with FastMCP.
Tools ==
    IF variant = "main"
    THEN {"about", "validate", "perform_web_research", "scrape_webpage_content"}
    ELSE {"validate", "perform_web_research", "scrape_webpage_content"}

Outbound == {"perform_web_research", "scrape_webpage_content"}

\* The frame of one request-scoped task.  pc: idle, rejected (the bearer gate
\* gave no grant), awaiting (suspended on its outbound request), responded
\* (the request has ended, the task is ready to resume), done (returned
\* `out.ret`), failed (`out.exc` left the handler).
Idle ==
    [pc |-> "idle", token |-> "", grant |-> None, tool |-> "", arg |-> <<>>,
     req |-> None, up |-> None, out |-> Unfinished]

\* The handler from its first line to its first await.
Begin(tool, arg) ==
    IF tool = "about" THEN [req |-> None, out |-> about]
    ELSE IF tool = "validate"
    THEN [req |-> None, out |-> IF variant = "main" THEN main_validate ELSE tool_validate]
    ELSE IF tool = "perform_web_research"
    THEN IF variant = "main" THEN main_perform_web_research_begin(arg)
         ELSE tool_perform_web_research_begin(arg)
    ELSE IF variant = "main" THEN main_scrape_webpage_content_begin(arg)
         ELSE tool_scrape_webpage_content_begin(arg)

\* The handler from its await to its end, given how the request ended.
Continue(tool, arg, up) ==
    IF tool = "perform_web_research"
    THEN IF variant = "main" THEN main_perform_web_research_resume(arg, up)
         ELSE tool_perform_web_research_resume(arg, up)
    ELSE IF variant = "main" THEN main_scrape_webpage_content_resume(arg, up)
         ELSE tool_scrape_webpage_content_resume(arg, up)

EndPc(out) == IF out.raised THEN "failed" ELSE "done"

\* A request arrives with a bearer token: the gate asks load_access_token,
\* and only a granted request reaches the tool, which runs to its first await.
Invoke(i, token, tool, arg) ==
    /\ calls[i].pc = "idle"
    /\ tool \in Tools
    /\ LET grant == load_access_token(token)
           b == Begin(tool, arg)
       IN  calls' = [calls EXCEPT ![i] =
               IF grant = None
               THEN [Idle EXCEPT !.pc = "rejected", !.token = token, !.tool = tool, !.arg = arg]
               ELSE [Idle EXCEPT
                        !.pc = IF b.req # None THEN "awaiting" ELSE EndPc(b.out),
                        !.token = token, !.grant = grant, !.tool = tool, !.arg = arg,
                        !.req = b.req, !.out = b.out]]
    /\ UNCHANGED cfg

\* The outbound request of task i ends: a response, a fault or a timeout.
Respond(i, up) ==
    /\ calls[i].pc = "awaiting"
    /\ calls' = [calls EXCEPT ![i].pc = "responded", ![i].up = Some(up)]
    /\ UNCHANGED cfg

\* What `await client.post(...)` / `await client.get(...)` hands back to
\* task i: the outcome of its own request.
AwaitedResponseOfFirst(i) ==
    TheOne(calls[CHOOSE j \in Calls :
                    /\ calls[j].up # None
                    /\ \A k \in Calls : calls[k].up # None => j <= k].up)

AwaitedResponse(i) == TheOne(calls[i].up)

\* Task i resumes and runs to its end.
Resume(i) ==
    /\ calls[i].pc = "responded"
    /\ LET out == Continue(calls[i].tool, calls[i].arg, AwaitedResponse(i))
       IN  calls' = [calls EXCEPT ![i].pc = EndPc(out), ![i].out = out]
    /\ UNCHANGED cfg

\* ------------------------------------------------------------ input sets
Strings(alphabet, n) == UNION {[1..k -> alphabet] : k \in 0..n}

Queries == Strings({" ", "q"}, MaxQueryLen)
Url == <<"https://example.com/page">>

Json(top, has, org_type, truthy, organic) ==
    [valid |-> TRUE, top |-> top, has_organic |-> has, org_type |-> org_type,
     org_truthy |-> truthy, organic |-> organic]

LinkFoo == <<"https:", "//", "w", "w", "w", ".", "f", "o", "o", ".", "c", "o", "m", "/", "x">>
LinkBar == <<"https:", "//", "b", "a", "r", ".", "o", "r", "g", "/", "y">>
LinkNewww == <<"https:", "//", "n", "e", "w", "w", "w", ".", "c", "o", "m", "/", "a">>
LinkBad == <<"http:", "//", "[", "b", "a", "d">>
LinkRelative == <<"f", "o", "o", ".", "c", "o", "m", "/", "x">>

Items ==
    { DictItem(Some("A"), Some(StrLink(LinkFoo)), Some("S1")),
      DictItem(Some("B"), Some(StrLink(LinkBar)), Some("S2")),
      DictItem(Some("C"), None, Some("S3")),
      DictItem(Some("D"), Some(StrLink(LinkBad)), None),
      DictItem(None, Some(StrLink(LinkBar)), Some("S5")),
      DictItem(Some("E"), Some(NullLink), Some("S6")),
      DictItem(Some("F"), Some(StrLink(LinkNewww)), Some("S7")),
      DictItem(Some("G"), Some(StrLink(LinkRelative)), Some("S8")),
      StrItem }

OrganicLists == UNION {[1..k -> Items] : k \in 1..MaxOrganic}

JsonBodies ==
    { NoJson,
      Json("null", FALSE, "", FALSE, <<>>), Json("int", FALSE, "", FALSE, <<>>),
      Json("str", FALSE, "", FALSE, <<>>), Json("str", TRUE, "", FALSE, <<>>),
      Json("list", FALSE, "", FALSE, <<>>), Json("list", TRUE, "", FALSE, <<>>),
      Json("dict", FALSE, "", FALSE, <<>>) }
    \cup { Json("dict", TRUE, t, b, <<>>) : t \in {"int", "str", "dict"}, b \in BOOLEAN }
    \cup { Json("dict", TRUE, "null", FALSE, <<>>), Json("dict", TRUE, "list", FALSE, <<>>) }
    \cup { Json("dict", TRUE, "list", TRUE, organic) : organic \in OrganicLists }

SearchOutcomes ==
    { ClientError("ConnectError"), ClientError("ReadTimeout") }
    \cup { Response(st, None, <<"upstream says no">>, NoJson, <<>>) : st \in {304, 404} }
    \cup { Response(200, None, <<>>, body, <<>>) : body \in JsonBodies }

A1 == <<Block("a", 1)>>
A2500 == <<Block("a", 2500)>>
A5000 == <<Block("a", 5000)>>
Blank == <<Block(" ", 1)>>
Padded == <<Block(" ", 1), Block("a", 4999), Block(" ", 1)>>
B1 == <<Block("b", 1)>>
\* text that lies inside a script, style, nav or footer element
X1 == <<Block("x", 1)>>

P(t) == Element("p", <<TextNode(t)>>)

TopNodes ==
    { P(t) : t \in {A1, A2500, A5000, Blank, Padded} }
    \cup { Element("script", <<TextNode(X1)>>), Element("style", <<TextNode(X1)>>),
           Element("nav", <<P(X1)>>), Element("footer", <<P(X1)>>),
           Element("div", <<P(B1)>>), Element("h1", <<TextNode(B1)>>),
           Element("p", <<TextNode(A1), Element("script", <<TextNode(X1)>>)>>),
           Element("p", <<TextNode(A1), P(B1)>>) }

Docs == UNION {[1..k -> TopNodes] : k \in 0..MaxNodes}

ContentTypes ==
    { None, Some(<<"text/html">>), Some(<<"text/html", "; charset=utf-8">>),
      Some(<<"TEXT/HTML">>), Some(<<"text/plain">>), Some(<<"application/pdf">>),
      Some(<<"Application/PDF">>), Some(<<"multipart/related", "; type=", "text/html">>) }

ScrapeOutcomes ==
    { ClientError("ConnectError"), ClientError("ReadTimeout"), ClientError("InvalidURL") }
    \cup { Response(404, ct, <<>>, NoJson, <<>>) :
             ct \in {Some(<<"text/html">>), Some(<<"application/pdf">>)} }
    \cup { Response(200, ct, <<>>, NoJson, doc) : ct \in ContentTypes, doc \in Docs }

Unset == [TOKEN |-> None, MY_NUMBER |-> None, SERPER_API_KEY |-> None, PORT |-> None]

\* The ways the request of task i can end, of those in `outcomes`: none
\* unless the task is suspended on a request.
Pending(i, outcomes) == IF calls[i].pc = "awaiting" THEN outcomes ELSE {}

\* --------------------------------------------------------- specifications
\* Spec: the server under concurrent requests.  Any task may take the next
\* step; the inputs are a few of each kind.
SpecEnvs ==
    { Unset,
      [Unset EXCEPT !.SERPER_API_KEY = Some(<<"sk-live">>)],
      [TOKEN |-> Some("s3cret"), MY_NUMBER |-> Some(<<"+919876543210">>),
       SERPER_API_KEY |-> Some(<<"sk-live">>), PORT |-> Some(<<"9", "0", "0", "0">>)] }

SpecTokens == {"12345678", "s3cret", ""}

SpecArgs(tool) ==
    IF tool = "perform_web_research" THEN {<<>>, <<"q">>}
    ELSE IF tool = "scrape_webpage_content" THEN {Url}
    ELSE {<<>>}

SpecOutcomes(tool) ==
    IF tool = "perform_web_research"
    THEN { ClientError("ReadTimeout"),
           Response(200, None, <<>>, Json("dict", FALSE, "", FALSE, <<>>), <<>>),
           Response(200, None, <<>>,
                    Json("dict", TRUE, "list", TRUE,
                         <<DictItem(Some("A"), Some(StrLink(LinkFoo)), Some("S1"))>>), <<>>) }
    ELSE { ClientError("ConnectError"),
           Response(200, Some(<<"application/pdf">>), <<>>, NoJson, <<P(A1)>>),
           Response(200, Some(<<"text/html">>), <<>>, NoJson, <<P(A1)>>) }

Init ==
    /\ LoadConfig(SpecEnvs)
    /\ calls = [i \in Calls |-> Idle]

Next ==
    \E i \in Calls :
        \/ \E token \in SpecTokens, tool \in Tools :
              \E arg \in SpecArgs(tool) : Invoke(i, token, tool, arg)
        \/ \E up \in Pending(i, SpecOutcomes(calls[i].tool)) : Respond(i, up)
        \/ Resume(i)

Spec == Init /\ [][Next]_vars

\* SpecTools: one authenticated call of perform_web_research or
\* scrape_webpage_content, over every query, every configuration of the API
\* key and every way the upstream can answer.
ToolEnvs == Environments({None}, {None}, AllKeys, {None})

OutcomesOf(tool) ==
    IF tool = "perform_web_research" THEN SearchOutcomes ELSE ScrapeOutcomes

ArgsOf(tool) == IF tool = "perform_web_research" THEN Queries ELSE {Url}

InitTools ==
    /\ LoadConfig(ToolEnvs)
    /\ calls = [i \in Calls |-> Idle]

NextTools ==
    \/ \E tool \in Outbound : \E arg \in ArgsOf(tool) : Invoke(1, TOKEN, tool, arg)
    \/ \E up \in Pending(1, OutcomesOf(calls[1].tool)) : Respond(1, up)
    \/ Resume(1)

SpecTools == InitTools /\ [][NextTools]_vars

\* ----------------------------------------------------------------- claims
IsSearch(c) == c.tool = "perform_web_research" /\ c.pc # "idle" /\ c.pc # "rejected"
IsScrape(c) == c.tool = "scrape_webpage_content" /\ c.pc # "idle" /\ c.pc # "rejected"
Returned(c) == c.pc = "done"
HasKey(c, k) == c.out.ret.type = "dict" /\ k \in c.out.ret.keys

\* The request of call c ended with a response that the client library of
\* the running module does not turn into an exception.
GotResponse(c) ==
    /\ c.up # None
    /\ TheOne(c.up).kind = "resp"
    /\ IF variant = "main" THEN ~httpx_is_error(TheOne(c.up).status)
       ELSE ~requests_is_error(TheOne(c.up).status)

\* C1: load_access_token gives a grant exactly for the token equal to the
\* configured secret; every grant has no scopes and no expiry, and every
\* other token gets None.
C1_GrantIffSecret ==
    \A i \in Calls :
        calls[i].pc # "idle" =>
            /\ calls[i].grant # None <=> calls[i].token = TOKEN
            /\ \A g \in calls[i].grant :
                  g.token = calls[i].token /\ g.scopes = <<>> /\ g.expires_at = None

C1_Witness ==
    \E i, j \in Calls :
        /\ calls[i].grant # None /\ calls[i].pc = "done"
        /\ calls[j].pc = "rejected" /\ calls[j].token # TOKEN

\* C2: a call of perform_web_research or scrape_webpage_content never ends
\* with an exception leaving the handler, and what it returns is a dict with
\* a 'message' key, however its outbound request ended.
C2_AlwaysMessage ==
    \A i \in Calls :
        calls[i].tool \in Outbound =>
            /\ calls[i].pc # "failed"
            /\ ~calls[i].out.raised
            /\ Returned(calls[i]) => HasKey(calls[i], "message")

C2_Witness ==
    /\ variant = "main"
    /\ Returned(calls[1])
    /\ calls[1].tool = "perform_web_research"
    /\ calls[1].up # None
    /\ TheOne(calls[1].up).data.top = "null"
    /\ HasKey(calls[1], "message")

ErrorMessages ==
    { <<"Error: Search query cannot be empty.">>,
      <<"Error: SERPER_API_KEY is not set.">>,
      <<"Error: The SERPER_API_KEY is not configured in the tool server.">> }

ConfigErrorMessages ==
    { <<"Error: SERPER_API_KEY is not set.">>,
      <<"Error: The SERPER_API_KEY is not configured in the tool server.">> }

EmptyQueryRefused(c) ==
    (IsSearch(c) /\ strip(c.arg) = <<>>) =>
        /\ c.req = None
        /\ Returned(c)
        /\ c.out.ret.message \in ErrorMessages

\* C3: perform_web_research with an empty or whitespace-only query returns
\* an error message and sends no request to the search provider.
C3_EmptyQueryNoRequest == \A i \in Calls : EmptyQueryRefused(calls[i])

\* What holds of main.py alone for C3.
C3_MainOnly == \A i \in Calls : variant = "main" => EmptyQueryRefused(calls[i])

\* C4: with no API key configured (the variable unset or empty),
\* perform_web_research returns the configuration error for every query and
\* sends no request.
C4_NoKeyNoRequest ==
    \A i \in Calls :
        (IsSearch(calls[i]) /\ Falsy(env.SERPER_API_KEY)) =>
            /\ calls[i].req = None
            /\ Returned(calls[i])
            /\ calls[i].out.ret.message \in ConfigErrorMessages

C4_Witness ==
    /\ variant = "main"
    /\ IsSearch(calls[1])
    /\ env.SERPER_API_KEY = None
    /\ strip(calls[1].arg) # <<>>
    /\ Returned(calls[1])

\* The media type a Content-Type header declares: its first fragment,
\* case-insensitively.
DeclaresWebpage(ctype) ==
    /\ ctype # None
    /\ TheOne(ctype) # <<>>
    /\ LowerSymbol(TheOne(ctype)[1]) \in {"text/html", "text/plain"}

HeaderText(ctype) == lower(IF ctype = None THEN <<>> ELSE TheOne(ctype))

ContentTypeGate(c) ==
    (IsScrape(c) /\ Returned(c) /\ GotResponse(c)) =>
        /\ c.out.parsed => DeclaresWebpage(TheOne(c.up).ctype)
        /\ ~DeclaresWebpage(TheOne(c.up).ctype) =>
              c.out.ret.message = <<"Error: URL points to '">>
                                  \o HeaderText(TheOne(c.up).ctype)
                                  \o <<"', not a webpage.">>

\* C5: for a response whose declared content type is neither HTML nor plain
\* text, scrape_webpage_content returns "Error: URL points to '<type>', not
\* a webpage." and the body is never parsed.
C5_ContentTypeGate == \A i \in Calls : ContentTypeGate(calls[i])

\* What holds of main.py alone for C5: the gate as the code tests it, by
\* "text/html" or "text/plain" occurring anywhere in the header.
C5_MainOnly ==
    \A i \in Calls :
        (variant = "main" /\ IsScrape(calls[i]) /\ Returned(calls[i]) /\ GotResponse(calls[i])) =>
            LET h == HeaderText(TheOne(calls[i].up).ctype)
                web == Contains(h, "text/html") \/ Contains(h, "text/plain")
            IN  /\ calls[i].out.parsed <=> web
                /\ ~web => calls[i].out.ret.message =
                              <<"Error: URL points to '">> \o h \o <<"', not a webpage.">>

\* The full paragraph text of a document, as the running module extracts it.
Extracted(doc) == IF variant = "main" THEN main_extract(doc) ELSE tool_extract(doc)

CappedPrefix(c) ==
    (IsScrape(c) /\ Returned(c) /\ HasKey(c, "full_text")) =>
        LET full == text_strip(Extracted(TheOne(c.up).doc))
            got == c.out.ret.full_text
        IN  /\ TextTake(full, TextLen(got)) = got
            /\ TextLen(got) <= 5000
            /\ TextLen(full) > 5000 => TextLen(got) = 5000

\* C6: the text scrape_webpage_content returns is a prefix of the trimmed
\* paragraph text, at most 5000 characters long, and exactly 5000 when the
\* full text is longer.
C6_CappedPrefix == \A i \in Calls : CappedPrefix(calls[i])

\* What holds of main.py alone for C6.
C6_MainOnly == \A i \in Calls : variant = "main" => CappedPrefix(calls[i])

C6_MainWitness ==
    /\ variant = "main" /\ IsScrape(calls[1]) /\ HasKey(calls[1], "full_text")
    /\ TextLen(text_strip(main_extract(TheOne(calls[1].up).doc))) > 5000

\* The part of a message that follows the fragment `mark`.
RECURSIVE After(_, _)
After(m, mark) ==
    IF m = <<>> THEN <<>>
    ELSE IF Head(m) = mark THEN Tail(m)
    ELSE After(Tail(m), mark)

\* A result that can be shown as a line: a JSON object with a title and a
\* string link that urlparse accepts.
LinkParses(item) ==
    /\ item.link # None
    /\ TheOne(item.link).t = "str"
    /\ ~urlparse_netloc(TheOne(item.link).s).raised

Convertible(item) == item.t = "dict" /\ LinkParses(item) /\ item.title # None

HostOf(item) == urlparse_netloc(TheOne(item.link).s).ret.str

\* The label as C7 words it: drop a leading "www." and nothing else, take
\* the first dot-delimited label, title-case it.
ClaimedSiteLabel(host) ==
    title(splitFirst(IF IsPrefixAt(host, 1, WWW)
                     THEN SubSeq(host, Len(WWW) + 1, Len(host))
                     ELSE host, "."))

RECURSIVE ClaimedLines(_)
ClaimedLines(organic) ==
    IF organic = <<>> THEN <<>>
    ELSE (IF Convertible(Head(organic))
          THEN <<(<<"- **", TheOne(Head(organic).title), "** (found on ">>
                  \o ClaimedSiteLabel(HostOf(Head(organic))) \o <<")">>)>>
          ELSE <<>>)
         \o ClaimedLines(Tail(organic))

\* C7: the site label in each bullet line is the link's host with a leading
\* "www." (and nothing else) removed, cut at the first dot and title-cased.
C7_SiteLabel ==
    \A i \in Calls :
        (variant = "main" /\ IsSearch(calls[i]) /\ Returned(calls[i])
         /\ HasKey(calls[i], "results_data")) =>
            After(calls[i].out.ret.message, "Top sources:\n")
                = join_lines(ClaimedLines(calls[i].out.ret.results_data))

Noise == {"script", "style", "nav", "footer"}

\* The text of the nodes that lies outside every script, style, nav and footer.
RECURSIVE VisibleText(_)
VisibleText(nodes) ==
    IF nodes = <<>> THEN <<>>
    ELSE LET n == Head(nodes)
         IN  TextCat(IF n.tag = "#text" THEN n.text
                     ELSE IF n.tag \in Noise THEN <<>>
                     ELSE VisibleText(n.kids),
                     VisibleText(Tail(nodes)))

\* The texts of the paragraph elements that are not inside a script, style,
\* nav or footer, in document order.
RECURSIVE VisibleParagraphs(_)
VisibleParagraphs(nodes) ==
    IF nodes = <<>> THEN <<>>
    ELSE LET n == Head(nodes)
         IN  (IF n.tag = "#text" \/ n.tag \in Noise THEN <<>>
              ELSE (IF n.tag = "p" THEN <<VisibleText(n.kids)>> ELSE <<>>)
                   \o VisibleParagraphs(n.kids))
             \o VisibleParagraphs(Tail(nodes))

NoNoiseText(t) == \A k \in 1..Len(t) : t[k].c # "x"

\* C8: the text main.py's scrape_webpage_content returns is the text of the
\* paragraph elements in document order joined by single spaces (trimmed and
\* capped), with nothing from inside script, style, nav or footer; a document
\* with no paragraph text gets the "found no main text content" message and
\* no text field.
C8_ParagraphText ==
    \A i \in Calls :
        (variant = "main" /\ IsScrape(calls[i]) /\ Returned(calls[i]) /\ GotResponse(calls[i])
         /\ DeclaresWebpage(TheOne(calls[i].up).ctype)) =>
            LET want == text_strip(text_join(<<Block(" ", 1)>>,
                                             VisibleParagraphs(TheOne(calls[i].up).doc)))
                ret == calls[i].out.ret
            IN  IF want = <<>>
                THEN /\ ret.message = <<"Visited page but found no main text content.">>
                     /\ ~HasKey(calls[i], "full_text")
                ELSE /\ HasKey(calls[i], "full_text")
                     /\ ret.full_text = TextTake(want, 5000)
                     /\ NoNoiseText(ret.full_text)

C8_Witness ==
    /\ variant = "main" /\ IsScrape(calls[1]) /\ Returned(calls[1])
    /\ HasKey(calls[1], "full_text")
    /\ TheOne(calls[1].up).doc = <<Element("nav", <<P(X1)>>), Element("div", <<P(B1)>>)>>
    /\ calls[1].out.ret.full_text = B1

\* The titles of the result lines of a message, in order ("- **T**" in
\* main.py, "n. **T**" in tool.py).
RECURSIVE LineTitles(_)
LineTitles(m) ==
    IF Len(m) < 2 THEN <<>>
    ELSE IF Head(m) \in {"- **", ". **"} THEN <<m[2]>> \o LineTitles(Tail(Tail(m)))
    ELSE LineTitles(Tail(m))

RECURSIVE TitlesOfConvertible(_)
TitlesOfConvertible(organic) ==
    IF organic = <<>> THEN <<>>
    ELSE (IF Convertible(Head(organic)) THEN <<TheOne(Head(organic).title)>> ELSE <<>>)
         \o TitlesOfConvertible(Tail(organic))

\* The provider returned a non-empty list of JSON objects, one of which has
\* no link or a link that does not parse.
HasBadLink(c) ==
    /\ GotResponse(c)
    /\ LET d == TheOne(c.up).data
       IN  /\ d.valid /\ d.top = "dict" /\ d.has_organic
           /\ d.org_type = "list" /\ d.org_truthy
           /\ \A k \in 1..Len(d.organic) : d.organic[k].t = "dict"
           /\ \E k \in 1..Len(d.organic) : ~LinkParses(d.organic[k])

SkipsOnlyBadResults(c) ==
    (IsSearch(c) /\ Returned(c) /\ HasBadLink(c)) =>
        /\ HasKey(c, "results_data")
        /\ c.out.ret.results_data = TheOne(c.up).data.organic
        /\ LineTitles(c.out.ret.message) = TitlesOfConvertible(TheOne(c.up).data.organic)

\* C9: when some result of a non-empty organic list has a missing or
\* unparsable link, only that result is skipped: the response is the summary
\* with a line for each remaining result in provider order, and carries the
\* raw list unchanged.
C9_SkipsOnlyBadResults == \A i \in Calls : SkipsOnlyBadResults(calls[i])

\* What holds of main.py alone for C9.
C9_MainOnly == \A i \in Calls : variant = "main" => SkipsOnlyBadResults(calls[i])

\* What call c must have ended with, from its own argument, the
\* configuration and the outcome of its own request.
OwnOutcome(c) ==
    IF c.up = None THEN Begin(c.tool, c.arg).out
    ELSE Continue(c.tool, c.arg, TheOne(c.up))

EachCallOnItsOwn ==
    \A i \in Calls :
        calls[i].pc \in {"done", "failed"} =>
            /\ calls[i].out = OwnOutcome(calls[i])
            /\ calls[i].req = Begin(calls[i].tool, calls[i].arg).req

\* C10: under every interleaving of the tools the configuration never
\* changes after startup, and what each call ends with is determined by its
\* own argument, the configuration and the outcome of its own request.
C10_Stateless == []EachCallOnItsOwn /\ [][cfg' = cfg]_vars

C10_Witness ==
    \E i, j \in Calls :
        /\ i # j
        /\ Returned(calls[i]) /\ Returned(calls[j])
        /\ calls[i].tool = calls[j].tool /\ calls[i].arg = calls[j].arg
        /\ calls[i].up # None /\ calls[j].up # None
        /\ calls[i].up # calls[j].up
        /\ calls[i].out # calls[j].out

====
